---- MODULE Spec2Model ----
(***************************************************************************)
(* Model of drivers/net/mlx_sx/sx_clock_spc2_3.c: the SPC2/SPC3 hardware   *)
(* clock (PTP operations, CQE timestamp reconstruction, initialisation).   *)
(*                                                                         *)
(* 64-bit C integers do not fit the model checker's integers, so a wide    *)
(* integer is a triple <<a, b, c>> that stands for                         *)
(*      a * NSEC_PER_SEC^2 + b * NSEC_PER_SEC + c                          *)
(* with 0 <= b, c < NSEC_PER_SEC and a of either sign.  Division and       *)
(* remainder by NSEC_PER_SEC are then a shift of the triple.               *)
(***************************************************************************)
EXTENDS Integers, Sequences, FiniteSets, TLC

\* ------------------------------------------------------------ constants
NSEC_PER_SEC == 1000000000
INT_MAX == 2147483647
INT_MIN == -INT_MAX - 1
ADJTIME_MIN == -32768
ADJTIME_MAX == 32767
CQE_SEC_WRAP == 256

\* ------------------------------------------------------------ bounds
\* number of MTUTC submissions (successful or not) a behaviour holds
MaxCalls == 2

\* ------------------------------------------------------------ wide integers
Norm(a, b, c) ==
    LET b2 == b + (c \div NSEC_PER_SEC)
    IN  <<a + (b2 \div NSEC_PER_SEC), b2 % NSEC_PER_SEC, c % NSEC_PER_SEC>>

BigOfInt(i) == Norm(0, 0, i)
BigZero == <<0, 0, 0>>
BigAdd(x, y) == Norm(x[1] + y[1], x[2] + y[2], x[3] + y[3])
BigSub(x, y) == Norm(x[1] - y[1], x[2] - y[2], x[3] - y[3])
BigNeg(x) == BigSub(BigZero, x)
BigLess(x, y) ==
    \/ x[1] < y[1]
    \/ x[1] = y[1] /\ x[2] < y[2]
    \/ x[1] = y[1] /\ x[2] = y[2] /\ x[3] < y[3]
BigLeq(x, y) == x = y \/ BigLess(x, y)
\* x mod 256: NSEC_PER_SEC = 2^9 * 5^9 is a multiple of 256
BigMod256(x) == x[3] % 256

TWO32 == <<0, 4, 294967296>>
TWO63 == <<9, 223372036, 854775808>>
TWO64 == <<18, 446744073, 709551616>>

\* conversion of a mathematical integer to u64, s64, u32 (two's complement)
RECURSIVE U64(_)
U64(x) ==
    IF BigLess(x, BigZero) THEN U64(BigAdd(x, TWO64))
    ELSE IF BigLeq(TWO64, x) THEN U64(BigSub(x, TWO64))
    ELSE x

S64(x) == LET u == U64(x) IN IF BigLeq(TWO63, u) THEN BigSub(u, TWO64) ELSE u

RECURSIVE U32(_)
U32(x) ==
    IF BigLess(x, BigZero) THEN U32(BigAdd(x, TWO32))
    ELSE IF BigLeq(TWO32, x) THEN U32(BigSub(x, TWO32))
    ELSE x

\* x * NSEC_PER_SEC for |x| < NSEC_PER_SEC^2, before any wrap
MulNsec(x) ==
    IF BigLess(x, BigZero)
    THEN LET m == BigNeg(x) IN BigNeg(<<m[2], m[3], 0>>)
    ELSE <<x[2], x[3], 0>>
\* u64 division and remainder by NSEC_PER_SEC
DivNsec(u) == <<0, u[1], u[2]>>
ModNsec(u) == <<0, 0, u[3]>>

\* the u32 whose bytes, least significant first, are b
U32OfBytes(b) ==
    LET t == b[4] * 16
    IN  Norm(0, t \div 1000,
             (t % 1000) * 1000000 + b[4] * 777216
               + b[3] * 65536 + b[2] * 256 + b[1])

Reverse(s) == [i \in 1..Len(s) |-> s[Len(s) + 1 - i]]


\* the int of a wide integer known to fit one (the cast (int)delta)
IntOfBig(x) == IF x[1] = 0 THEN x[2] * NSEC_PER_SEC + x[3]
               ELSE (x[2] - NSEC_PER_SEC) * NSEC_PER_SEC + x[3]

\* ------------------------------------------------------------ inputs
\* contents of the 64-bit UTC register in BAR0, bytes in address order
RegContents ==
    { <<0, 0, 0, 10,        0, 0, 0, 0>>,
      <<0, 0, 0, 100,       29, 205, 101, 0>>,
      <<255, 255, 255, 255, 59, 154, 201, 255>>,
      <<0, 1, 135, 104,     0, 1, 134, 170>> }

\* what sx_ACCESS_REG_MTUTC can return: 0 or an error (-EIO)
ErrCodes == {0, -5}

AdjFreqDeltas == {INT_MIN, -INT_MAX, 1000, INT_MAX}

AdjTimeDeltas ==
    { BigOfInt(ADJTIME_MIN - 1), BigOfInt(ADJTIME_MIN),
      BigOfInt(ADJTIME_MAX), BigOfInt(ADJTIME_MAX + 1),
      <<0, 2, 0>>, BigSub(TWO63, BigOfInt(1)) }

SetTimes ==
    { [tv_sec |-> BigOfInt(100), tv_nsec |-> BigOfInt(500000000)],
      [tv_sec |-> BigSub(TWO32, BigOfInt(1)), tv_nsec |-> BigOfInt(999999999)] }

CqeSeconds == {0, 5, 10, 104, 170, 250, 255}
CqeNanoseconds == {0, 999999999}

\* a call through a NULL function pointer faults: the task is killed by the
\* oops, or the machine panics (panic_on_oops)
NullCallOutcomes == {"oops", "panic"}

\* -(INT_MIN) overflows s32; the kernel is built with -fno-strict-overflow,
\* so the negation wraps
NegOverflowOutcomes == {INT_MIN}

\* ------------------------------------------------------------ state
VARIABLES
    __sec_offset,        \* static u32 __sec_offset
    __read_hw_utc_cb,    \* static callback: "NULL", "spc2" or "spc3"
    registered,          \* sx_clock_register() was given the operation table
    init_pc,             \* the sx_clock_init_spcN call in progress, if any
    hw_clock_utc,        \* the device's UTC register (8 bytes, address order)
    cmds,                \* MTUTC submissions made, each with its result
    log,                 \* the clock audit log
    last                 \* the last call: its inputs, reads, effects, result

vars == <<__sec_offset, __read_hw_utc_cb, registered, init_pc, hw_clock_utc,
          cmds, log, last>>

ZeroTs == [tv_sec |-> BigZero, tv_nsec |-> BigZero]
NoCall ==
    [op |-> "none", arg |-> BigZero, ts |-> ZeroTs, cqe |-> [tv_sec |-> 0, tv_nsec |-> 0],
     err |-> 0, ret |-> 0, fault |-> "none", cb |-> "NULL", off |-> 0,
     rd |-> <<0, 0, 0, 0, 0, 0, 0, 0>>, nreads |-> 0,
     cmds |-> <<>>, logs |-> <<>>, out |-> ZeroTs]

Idle == [gen |-> "none", line |-> 0]

\* ------------------------------------------------------------ register codec
__raw_readq(mem) == mem                    \* little-endian host: byte 1 is the LSB
__raw_readl(mem, off) == SubSeq(mem, off + 1, off + 4)
swab64(v) == Reverse(v)
swab32(v) == Reverse(v)

__read_cr_space_utc(mem) ==
    LET hw_utc == swab64(__raw_readq(mem))
    IN  [utc_low  |-> U32OfBytes(SubSeq(hw_utc, 1, 4)),
         utc_high |-> U32OfBytes(SubSeq(hw_utc, 5, 8))]

__read_cr_space_utc_spc2(mem) ==
    LET r == __read_cr_space_utc(mem)
    IN  [tv_sec |-> r.utc_high, tv_nsec |-> r.utc_low]

__read_cr_space_utc_spc3(mem) ==
    LET r == __read_cr_space_utc(mem)
    IN  [tv_sec |-> r.utc_low, tv_nsec |-> r.utc_high]

\* the call (*__read_hw_utc_cb)(ts) with a bound callback
read_hw_utc(cb, mem) ==
    IF cb = "spc2" THEN __read_cr_space_utc_spc2(mem)
    ELSE __read_cr_space_utc_spc3(mem)

\* ------------------------------------------------------------ adjustment engine
MtutcReg(op, sec, nsec, freq, time, err) ==
    [operation |-> op, utc_sec |-> sec, utc_nsec |-> nsec,
     freq_adjustment |-> freq, time_adjustment |-> time, err |-> err]

\* the u32 fields utc_sec and utc_nsec of the MTUTC register
mtutc_u32(x) == U32(x)

__write_mtutc(err) == err

SX_CLOCK_TIMESPEC_TO_NS(ts) == S64(BigAdd(MulNsec(ts.tv_sec), ts.tv_nsec))

\* mutant: the caller's delta is stored without the negation
__adjfreq_spc2_no_negate(delta, wrap, err) ==
    LET e == __write_mtutc(err)
    IN  [cmds |-> <<MtutcReg(3, BigZero, BigZero, delta, 0, e)>>,
         logs |-> IF e = 0
                  THEN <<[kind |-> "adjfreq", val |-> BigOfInt(delta)]>>
                  ELSE <<>>,
         ret |-> e, nreads |-> 0]

__adjfreq_spc2(delta, wrap, err) ==
    LET orig_delta == delta
        neg == IF delta = INT_MIN THEN wrap ELSE -delta
        e == __write_mtutc(err)
    IN  [cmds |-> <<MtutcReg(3, BigZero, BigZero, neg, 0, e)>>,
         logs |-> IF e = 0
                  THEN <<[kind |-> "adjfreq", val |-> BigOfInt(orig_delta)]>>
                  ELSE <<>>,
         ret |-> e, nreads |-> 0]

\* mutant: the audit entry is added before the result of the write is looked at
__settime_spc2_logs_first(ts, err) ==
    LET e == __write_mtutc(err)
    IN  [cmds |-> <<MtutcReg(1, mtutc_u32(ts.tv_sec), mtutc_u32(ts.tv_nsec), 0, 0, e)>>,
         logs |-> <<[kind |-> "settime",
                     val |-> S64(BigAdd(S64(MulNsec(ts.tv_sec)), ts.tv_nsec))]>>,
         ret |-> e, nreads |-> 0]

__settime_spc2(ts, err) ==
    LET e == __write_mtutc(err)
    IN  [cmds |-> <<MtutcReg(1, mtutc_u32(ts.tv_sec), mtutc_u32(ts.tv_nsec), 0, 0, e)>>,
         logs |-> IF e = 0
                  THEN <<[kind |-> "settime",
                          val |-> S64(BigAdd(S64(MulNsec(ts.tv_sec)), ts.tv_nsec))]>>
                  ELSE <<>>,
         ret |-> e, nreads |-> 0]

\* mutant: the nanosecond sum is reduced but its quotient is not carried
adjtime_set_ts_no_carry(hw_utc, delta) ==
    LET nsec == U64(BigAdd(U64(SX_CLOCK_TIMESPEC_TO_NS(hw_utc)), delta))
    IN  [tv_sec |-> hw_utc.tv_sec, tv_nsec |-> ModNsec(nsec)]

\* the time the out-of-range branch of __adjtime_spc2 hands to __settime_spc2
adjtime_set_ts(hw_utc, delta) ==
    LET nsec == U64(BigAdd(U64(SX_CLOCK_TIMESPEC_TO_NS(hw_utc)), delta))
    IN  [tv_sec |-> DivNsec(nsec), tv_nsec |-> ModNsec(nsec)]

\* mutant: the range test excludes its two boundaries
__adjtime_spc2_open_range(delta, cb, mem, err) ==
    IF BigLeq(delta, BigOfInt(ADJTIME_MIN)) \/ BigLeq(BigOfInt(ADJTIME_MAX), delta)
    THEN LET r == __settime_spc2(adjtime_set_ts(read_hw_utc(cb, mem), delta), err)
         IN  [cmds |-> r.cmds,
              logs |-> r.logs \o (IF r.ret = 0
                                  THEN <<[kind |-> "adjtime", val |-> delta]>>
                                  ELSE <<>>),
              ret |-> r.ret, nreads |-> 1]
    ELSE LET e == __write_mtutc(err)
         IN  [cmds |-> <<MtutcReg(2, BigZero, BigZero, 0, IntOfBig(delta), e)>>,
              logs |-> IF e = 0
                       THEN <<[kind |-> "adjtime", val |-> delta]>>
                       ELSE <<>>,
              ret |-> e, nreads |-> 0]

__adjtime_spc2(delta, cb, mem, err) ==
    IF BigLess(delta, BigOfInt(ADJTIME_MIN)) \/ BigLess(BigOfInt(ADJTIME_MAX), delta)
    THEN LET r == __settime_spc2(adjtime_set_ts(read_hw_utc(cb, mem), delta), err)
         IN  [cmds |-> r.cmds,
              logs |-> r.logs \o (IF r.ret = 0
                                  THEN <<[kind |-> "adjtime", val |-> delta]>>
                                  ELSE <<>>),
              ret |-> r.ret, nreads |-> 1]
    ELSE LET e == __write_mtutc(err)
         IN  [cmds |-> <<MtutcReg(2, BigZero, BigZero, 0, IntOfBig(delta), e)>>,
              logs |-> IF e = 0
                       THEN <<[kind |-> "adjtime", val |-> delta]>>
                       ELSE <<>>,
              ret |-> e, nreads |-> 0]

\* ------------------------------------------------------------ timestamp reconciler
\* mutant: the wraparound test is strict
sx_clock_cqe_ts_to_utc_spc2_strict(mem, off, cqe_ts) ==
    LET word == swab32(__raw_readl(mem, off))
        utc_sec == U32OfBytes(word)
        utc_sec_8bit == word[1]
    IN  [tv_sec |->
            IF utc_sec_8bit > cqe_ts.tv_sec
            THEN S64(U64(BigSub(utc_sec, BigOfInt(utc_sec_8bit - cqe_ts.tv_sec))))
            ELSE S64(U64(BigAdd(U64(BigSub(utc_sec, BigOfInt(CQE_SEC_WRAP))),
                                BigOfInt(cqe_ts.tv_sec - utc_sec_8bit)))),
         tv_nsec |-> BigOfInt(cqe_ts.tv_nsec),
         ret |-> 0]

\* mutant: the wrap period is taken one second short
sx_clock_cqe_ts_to_utc_spc2_short_wrap(mem, off, cqe_ts) ==
    LET word == swab32(__raw_readl(mem, off))
        utc_sec == U32OfBytes(word)
        utc_sec_8bit == word[1]
    IN  [tv_sec |->
            IF utc_sec_8bit >= cqe_ts.tv_sec
            THEN S64(U64(BigSub(utc_sec, BigOfInt(utc_sec_8bit - cqe_ts.tv_sec))))
            ELSE S64(U64(BigAdd(U64(BigSub(utc_sec, BigOfInt(CQE_SEC_WRAP - 1))),
                                BigOfInt(cqe_ts.tv_sec - utc_sec_8bit)))),
         tv_nsec |-> BigOfInt(cqe_ts.tv_nsec),
         ret |-> 0]

sx_clock_cqe_ts_to_utc_spc2(mem, off, cqe_ts) ==
    LET word == swab32(__raw_readl(mem, off))
        utc_sec == U32OfBytes(word)
        utc_sec_8bit == word[1]
    IN  [tv_sec |->
            IF utc_sec_8bit >= cqe_ts.tv_sec
            THEN S64(U64(BigSub(utc_sec, BigOfInt(utc_sec_8bit - cqe_ts.tv_sec))))
            ELSE S64(U64(BigAdd(U64(BigSub(utc_sec, BigOfInt(CQE_SEC_WRAP))),
                                BigOfInt(cqe_ts.tv_sec - utc_sec_8bit)))),
         tv_nsec |-> BigOfInt(cqe_ts.tv_nsec),
         ret |-> 0]

\* ------------------------------------------------------------ initialisation
init_sec_offset(gen) == IF gen = "spc2" THEN 0 ELSE 4
init_read_cb(gen) == IF gen = "spc2" THEN "spc2" ELSE "spc3"

Init ==
    /\ __sec_offset = 0
    /\ __read_hw_utc_cb = "NULL"
    /\ registered = FALSE
    /\ init_pc = Idle
    /\ hw_clock_utc \in RegContents
    /\ cmds = <<>>
    /\ log = <<>>
    /\ last = NoCall

\* the state once sx_clock_init_spc2 or sx_clock_init_spc3 has returned
InitBound ==
    /\ \E gen \in {"spc2", "spc3"} :
          /\ __sec_offset = init_sec_offset(gen)
          /\ __read_hw_utc_cb = init_read_cb(gen)
    /\ registered = TRUE
    /\ init_pc = Idle
    /\ hw_clock_utc \in RegContents
    /\ cmds = <<>>
    /\ log = <<>>
    /\ last = NoCall

\* ------------------------------------------------------------ actions
\* sx_clock_init_spc2 / sx_clock_init_spc3, one step per statement
sx_clock_init_offset ==
    \E gen \in {"spc2", "spc3"} :
        /\ init_pc = Idle
        /\ __sec_offset' = init_sec_offset(gen)
        /\ init_pc' = [gen |-> gen, line |-> 2]
        /\ UNCHANGED <<__read_hw_utc_cb, registered, hw_clock_utc, cmds, log, last>>

sx_clock_init_cb ==
    /\ init_pc.line = 2
    /\ __read_hw_utc_cb' = init_read_cb(init_pc.gen)
    /\ init_pc' = [init_pc EXCEPT !.line = 3]
    /\ UNCHANGED <<__sec_offset, registered, hw_clock_utc, cmds, log, last>>

sx_clock_init_register ==
    /\ init_pc.line = 3
    /\ registered' = TRUE
    /\ init_pc' = Idle
    /\ last' = [NoCall EXCEPT !.op = "init", !.cb = __read_hw_utc_cb, !.off = __sec_offset]
    /\ UNCHANGED <<__sec_offset, __read_hw_utc_cb, hw_clock_utc, cmds, log>>

\* the device's free-running clock moves on
HwAdvance ==
    \E c \in RegContents :
        /\ c # hw_clock_utc
        /\ hw_clock_utc' = c
        /\ UNCHANGED <<__sec_offset, __read_hw_utc_cb, registered, init_pc, cmds, log, last>>

Submit(r) ==
    /\ cmds' = cmds \o r.cmds
    /\ log' = log \o r.logs
    /\ UNCHANGED <<__sec_offset, __read_hw_utc_cb, registered, init_pc, hw_clock_utc>>

adjfreq ==
    \E delta \in AdjFreqDeltas, wrap \in NegOverflowOutcomes, err \in ErrCodes :
        LET r == __adjfreq_spc2(delta, wrap, err)
        IN  /\ registered
            /\ Len(cmds) < MaxCalls
            /\ Submit(r)
            /\ last' = [NoCall EXCEPT !.op = "adjfreq", !.arg = BigOfInt(delta),
                           !.err = err, !.ret = r.ret, !.cb = __read_hw_utc_cb,
                           !.off = __sec_offset, !.cmds = r.cmds, !.logs = r.logs]

settime ==
    \E ts \in SetTimes, err \in ErrCodes :
        LET r == __settime_spc2(ts, err)
        IN  /\ registered
            /\ Len(cmds) < MaxCalls
            /\ Submit(r)
            /\ last' = [NoCall EXCEPT !.op = "settime", !.ts = ts,
                           !.err = err, !.ret = r.ret, !.cb = __read_hw_utc_cb,
                           !.off = __sec_offset, !.cmds = r.cmds, !.logs = r.logs]

adjtime ==
    \E delta \in AdjTimeDeltas, err \in ErrCodes :
        LET r == __adjtime_spc2(delta, __read_hw_utc_cb, hw_clock_utc, err)
        IN  /\ registered
            /\ Len(cmds) < MaxCalls
            /\ Submit(r)
            /\ last' = [NoCall EXCEPT !.op = "adjtime", !.arg = delta,
                           !.err = err, !.ret = r.ret, !.cb = __read_hw_utc_cb,
                           !.off = __sec_offset, !.cmds = r.cmds, !.logs = r.logs,
                           !.nreads = r.nreads,
                           !.rd = IF r.nreads = 1 THEN hw_clock_utc ELSE NoCall.rd]

__gettime_spc2 ==
    /\ registered
    /\ last' = [NoCall EXCEPT !.op = "gettime", !.cb = __read_hw_utc_cb,
                   !.off = __sec_offset, !.nreads = 1, !.rd = hw_clock_utc,
                   !.out = read_hw_utc(__read_hw_utc_cb, hw_clock_utc), !.ret = 0]
    /\ UNCHANGED <<__sec_offset, __read_hw_utc_cb, registered, init_pc, hw_clock_utc,
                   cmds, log>>

cqe_ts_to_utc ==
    \E s \in CqeSeconds, n \in CqeNanoseconds :
        LET cqe_ts == [tv_sec |-> s, tv_nsec |-> n]
            r == sx_clock_cqe_ts_to_utc_spc2(hw_clock_utc, __sec_offset, cqe_ts)
        IN  /\ last' = [NoCall EXCEPT !.op = "cqe_ts_to_utc", !.cqe = cqe_ts,
                           !.cb = __read_hw_utc_cb, !.off = __sec_offset,
                           !.nreads = 1, !.rd = hw_clock_utc,
                           !.out = [tv_sec |-> r.tv_sec, tv_nsec |-> r.tv_nsec],
                           !.ret = r.ret]
            /\ UNCHANGED <<__sec_offset, __read_hw_utc_cb, registered, init_pc,
                           hw_clock_utc, cmds, log>>

sx_clock_dump_spc2 ==
    /\ \/ /\ __read_hw_utc_cb = "NULL"
          /\ \E f \in NullCallOutcomes :
                last' = [NoCall EXCEPT !.op = "dump", !.cb = __read_hw_utc_cb,
                            !.off = __sec_offset, !.fault = f]
       \/ /\ __read_hw_utc_cb # "NULL"
          /\ last' = [NoCall EXCEPT !.op = "dump", !.cb = __read_hw_utc_cb,
                         !.off = __sec_offset, !.nreads = 1, !.rd = hw_clock_utc,
                         !.out = read_hw_utc(__read_hw_utc_cb, hw_clock_utc), !.ret = 0]
    /\ UNCHANGED <<__sec_offset, __read_hw_utc_cb, registered, init_pc, hw_clock_utc,
                   cmds, log>>

AdjNext == adjfreq \/ settime \/ adjtime \/ HwAdvance

ClockNext ==
    \/ sx_clock_init_offset \/ sx_clock_init_cb \/ sx_clock_init_register
    \/ __gettime_spc2 \/ cqe_ts_to_utc \/ sx_clock_dump_spc2 \/ HwAdvance

Next == AdjNext \/ ClockNext

Spec == Init /\ [][Next]_vars
\* the adjustment engine of an initialised clock
SpecAdj == InitBound /\ [][AdjNext]_vars
\* initialisation and the readers of the clock
SpecClock == Init /\ [][ClockNext]_vars

\* ------------------------------------------------------------ properties
AdjOps == {"adjfreq", "settime", "adjtime"}
InAdjtimeRange(delta) ==
    BigLeq(BigOfInt(ADJTIME_MIN), delta) /\ BigLeq(delta, BigOfInt(ADJTIME_MAX))
Successes(op) == {i \in DOMAIN cmds : cmds[i].operation = op /\ cmds[i].err = 0}
Entries(kind) == {i \in DOMAIN log : log[i].kind = kind}
\* the time the last call read from the register, and the sums of C4
LastHw == read_hw_utc(last.cb, last.rd)
LastHwNs == BigAdd(MulNsec(LastHw.tv_sec), LastHw.tv_nsec)
LastCmdNs == BigAdd(MulNsec(last.cmds[1].utc_sec), last.cmds[1].utc_nsec)
\* the reference seconds sx_clock_cqe_ts_to_utc_spc2 read in the last call
LastNow == U32OfBytes(Reverse(SubSeq(last.rd, last.off + 1, last.off + 4)))

\* C1: every adjust_frequency, set_time or adjust_time call that returns
\* success appends exactly one audit entry; for adjust_time, in either branch,
\* it is the adjust-time entry with the requested delta, and no entry carries
\* the recomputed absolute time.
C1_ExactlyOneEntryPerSuccess ==
    (last.op \in AdjOps /\ last.ret = 0) =>
        /\ Len(last.logs) = 1
        /\ last.op = "adjtime" =>
              last.logs = <<[kind |-> "adjtime", val |-> last.arg]>>

\* C2: an audit entry is appended only after the MTUTC write of the same call
\* returned success: a call whose write fails appends nothing and returns the
\* write's error code, and the log never holds more entries of a kind than
\* the successful writes account for.
C2_LogOnlyAfterSuccessfulSubmit ==
    /\ last.op \in AdjOps =>
          /\ Len(last.cmds) = 1
          /\ last.cmds[1].err = last.err
          /\ last.ret = last.err
          /\ last.err # 0 => last.logs = <<>>
          /\ last.logs # <<>> => last.err = 0
    /\ Cardinality(Entries("adjfreq")) = Cardinality(Successes(3))
    /\ Cardinality(Entries("settime")) = Cardinality(Successes(1))
    /\ Cardinality(Entries("adjtime")) <=
          Cardinality(Successes(2)) + Cardinality(Successes(1))
    /\ Len(log) = Cardinality(Entries("adjfreq")) + Cardinality(Entries("settime"))
                    + Cardinality(Entries("adjtime"))

C2_Witness ==
    /\ last.op = "adjtime" /\ last.nreads = 1
    /\ last.err = -5 /\ last.ret = -5 /\ last.logs = <<>>
    /\ Len(log) >= 1

\* C3: adjust_time picks its path by range, boundaries included: a delta in
\* [-32768, 32767] is sent as one ADJUST_TIME (operation 2) command with that
\* delta and the clock is not read; any other delta reads the clock and sends
\* one SET_TIME_IMMEDIATE (operation 1) command and no ADJUST_TIME command.
C3_AdjtimePathByRange ==
    last.op = "adjtime" =>
        /\ Len(last.cmds) = 1
        /\ IF InAdjtimeRange(last.arg)
           THEN /\ last.nreads = 0
                /\ last.cmds[1].operation = 2
                /\ BigOfInt(last.cmds[1].time_adjustment) = last.arg
           ELSE /\ last.nreads = 1
                /\ last.cmds[1].operation = 1

C3_Witness ==
    /\ last.op = "adjtime"
    /\ last.arg = BigOfInt(ADJTIME_MAX + 1)
    /\ last.nreads = 1
    /\ last.cmds[1].operation = 1

\* C4 as stated: in the fallback path, for every hardware time {s, n} with
\* n < 1e9 and every out-of-range delta, the command carries {s', n'} with
\* n' < 1e9 and s' * 1e9 + n' = s * 1e9 + n + delta.
C4_FallbackSumAnyDelta ==
    (last.op = "adjtime" /\ last.nreads = 1
       /\ BigLess(LastHw.tv_nsec, BigOfInt(NSEC_PER_SEC))) =>
        /\ BigLess(last.cmds[1].utc_nsec, BigOfInt(NSEC_PER_SEC))
        /\ LastCmdNs = BigAdd(LastHwNs, last.arg)

\* C4 as amended: the same, for the deltas whose sum s * 1e9 + n + delta is
\* not negative and has its seconds below 2^32.
C4_FallbackSumInRange ==
    (last.op = "adjtime" /\ last.nreads = 1
       /\ BigLess(LastHw.tv_nsec, BigOfInt(NSEC_PER_SEC))
       /\ BigLeq(BigZero, BigAdd(LastHwNs, last.arg))
       /\ BigLess(BigAdd(LastHwNs, last.arg), MulNsec(TWO32))) =>
        /\ BigLess(last.cmds[1].utc_nsec, BigOfInt(NSEC_PER_SEC))
        /\ LastCmdNs = BigAdd(LastHwNs, last.arg)

C4_Witness ==
    /\ last.op = "adjtime" /\ last.nreads = 1
    /\ LastHw = [tv_sec |-> BigOfInt(100), tv_nsec |-> BigOfInt(500000000)]
    /\ last.arg = <<0, 2, 0>>
    /\ last.cmds[1].utc_sec = BigOfInt(102)
    /\ last.cmds[1].utc_nsec = BigOfInt(500000000)

\* C5 as stated: for every s32 delta, INT_MIN to INT_MAX, adjust_frequency
\* sends an ADJUST_FREQ (operation 3) command whose freq_adjustment is the
\* arithmetic negation of delta, and on success logs the caller's delta.
C5_FreqNegatedAnyDelta ==
    last.op = "adjfreq" =>
        /\ Len(last.cmds) = 1
        /\ last.cmds[1].operation = 3
        /\ BigOfInt(last.cmds[1].freq_adjustment) = BigNeg(last.arg)
        /\ last.ret = 0 => last.logs = <<[kind |-> "adjfreq", val |-> last.arg]>>

\* C5 as amended: the same, for every delta in [-INT_MAX, INT_MAX].
C5_FreqNegatedAboveMin ==
    (last.op = "adjfreq" /\ last.arg # BigOfInt(INT_MIN)) =>
        /\ Len(last.cmds) = 1
        /\ last.cmds[1].operation = 3
        /\ BigOfInt(last.cmds[1].freq_adjustment) = BigNeg(last.arg)
        /\ last.ret = 0 => last.logs = <<[kind |-> "adjfreq", val |-> last.arg]>>

C5_Witness ==
    /\ last.op = "adjfreq"
    /\ last.arg = BigOfInt(INT_MAX)
    /\ last.cmds[1].freq_adjustment = -INT_MAX
    /\ last.logs = <<[kind |-> "adjfreq", val |-> BigOfInt(INT_MAX)]>>

\* C6: with now the reference seconds read and now_trunc = now mod 256, the
\* seconds returned are now - (now_trunc - c) if now_trunc >= c and
\* now - 256 + (c - now_trunc) otherwise; the nanoseconds are the input's and
\* the call returns 0.
C6_WraparoundRule ==
    last.op = "cqe_ts_to_utc" =>
        LET now == LastNow
            now_trunc == BigMod256(now)
            c == last.cqe.tv_sec
        IN  /\ last.out.tv_sec =
                  IF now_trunc >= c
                  THEN BigSub(now, BigOfInt(now_trunc - c))
                  ELSE BigAdd(BigSub(now, BigOfInt(256)), BigOfInt(c - now_trunc))
            /\ last.out.tv_nsec = BigOfInt(last.cqe.tv_nsec)
            /\ last.ret = 0

C6_Witness ==
    /\ last.op = "cqe_ts_to_utc"
    /\ LastNow = BigOfInt(100200)
    /\ last.cqe = [tv_sec |-> 250, tv_nsec |-> 999999999]
    /\ last.out = [tv_sec |-> BigOfInt(100090), tv_nsec |-> BigOfInt(999999999)]

\* C7: a call that reads the hardware clock before any initialisation has
\* bound a generation yields an UninitializedError result.
C7_UninitializedError ==
    (last.op \in {"gettime", "adjtime", "dump", "cqe_ts_to_utc"} /\ last.cb = "NULL") =>
        last.fault = "UninitializedError"

\* C8: once an initialisation has completed, the decode callback and the
\* seconds offset never change, whatever is called later.
C8_BindingImmutable ==
    [][registered => /\ __read_hw_utc_cb' = __read_hw_utc_cb
                     /\ __sec_offset' = __sec_offset]_vars

\* C9: whenever a decode callback is bound, the seconds offset is the one of
\* the callback's generation, and the seconds read at that offset are the
\* seconds the callback decodes from the same register content.
C9_OffsetMatchesDecode ==
    __read_hw_utc_cb # "NULL" =>
        /\ __sec_offset = init_sec_offset(__read_hw_utc_cb)
        /\ U32OfBytes(swab32(__raw_readl(hw_clock_utc, __sec_offset)))
             = read_hw_utc(__read_hw_utc_cb, hw_clock_utc).tv_sec

\* C10 as stated: for every reference seconds now and truncated seconds c the
\* seconds s returned are an unsigned 32-bit value with
\* now - 255 <= s <= now and s mod 256 = c.
C10_ResultIsU32InWindow ==
    last.op = "cqe_ts_to_utc" =>
        LET s == last.out.tv_sec
        IN  /\ BigLeq(BigZero, s) /\ BigLess(s, TWO32)
            /\ BigLeq(BigSub(LastNow, BigOfInt(255)), s) /\ BigLeq(s, LastNow)
            /\ BigMod256(s) = last.cqe.tv_sec

\* C10 as amended: the signed seconds s returned satisfy now - 255 <= s <= now
\* and s mod 256 = c; s is an unsigned 32-bit value when c <= now, and is the
\* negative value c - 256 when c > now (possible only for now < 255).
C10_ResultInWindow ==
    last.op = "cqe_ts_to_utc" =>
        LET s == last.out.tv_sec
            c == last.cqe.tv_sec
        IN  /\ BigLeq(BigSub(LastNow, BigOfInt(255)), s) /\ BigLeq(s, LastNow)
            /\ BigMod256(s) = c
            /\ BigLeq(BigOfInt(c), LastNow) => BigLeq(BigZero, s) /\ BigLess(s, TWO32)
            /\ BigLess(LastNow, BigOfInt(c)) => s = BigOfInt(c - 256)

C10_Witness ==
    /\ last.op = "cqe_ts_to_utc"
    /\ LastNow = BigOfInt(10)
    /\ last.cqe.tv_sec = 250
    /\ last.out.tv_sec = BigOfInt(-6)

====
